---- MODULE Spec2Model ----
(***************************************************************************)
(* StreamerRegistry (src/src/config/streamer_registry.py) as a state       *)
(* machine: the backing JSON document, the in-memory cache (an insertion-  *)
(* ordered dict), the wall clock, and the last public call with its        *)
(* outcome.                                                                *)
(*                                                                         *)
(* FileScanner (src/src/utils/file_scanner.py) as calls of scan and        *)
(* group_by_uid on what the file system yields in traversal order.         *)
(*                                                                         *)
(* Text values (uid, name, color) are sequences of character codes, so     *)
(* that sum(ord(c) for c in uid) and f"..." concatenation are computed as  *)
(* the code computes them.                                                 *)
(***************************************************************************)
EXTENDS Integers, Sequences, FiniteSets, TLC

VARIABLES
    phase,      \* "new": before __init__; "ready": constructed; "failed": __init__ raised
    disk,       \* content of config/streamers.json
    cache,      \* self._cache: sequence of <<key, profile>> in insertion order
    clock,      \* the latest value datetime.now() returned, in seconds
    call,       \* the last public call: [op, uid]
    ret,        \* what the last call returned: <<>> for None, <<p>> for a profile
    raised,     \* TRUE when the last call raised to its caller
    wres,       \* outcomes of the calls of _save_file made by the last call
    faults,     \* number of failed writes so far
    gorSeen,    \* history: uids passed to get_or_register in the current run of such calls
    gorUnseen,  \* history: those of gorSeen absent from the cache at their first call
    gorWrites,  \* history: calls of _save_file made by the current run
    args,       \* history: <<name, color>> of the last call of update_streamer_info
    target,     \* FileScanner: what the file system holds at target_path, in traversal order
    parts,      \* FileScanner, history: the parts the scanned file name was written from
    results,    \* FileScanner: what scan(target_path) returned
    scanned,    \* FileScanner: "no": scan not called; "returned"; "raised"
    file_list,  \* FileScanner: the argument of group_by_uid
    grouped,    \* FileScanner: what group_by_uid(file_list) returned: <<>> before the call, <<g>> after
    peer        \* a second StreamerRegistry on the same json_path: its [phase, cache]

vars == <<phase, disk, cache, clock, call, ret, raised, wres, faults, gorSeen, gorUnseen, gorWrites, args,
          target, parts, results, scanned, file_list, grouped, peer>>

\* the variables of FileScanner (src/src/utils/file_scanner.py)
scanner == <<target, parts, results, scanned, file_list, grouped>>

\* the variables the calls of the registry leave alone
hist == <<gorSeen, gorUnseen, gorWrites, args, scanner, peer>>

----------------------------------------------------------------------------
(* Bounds of the model *)

MaxClock == 1

MaxUidLen == 2

MaxFaults == 1

----------------------------------------------------------------------------
(* Python values *)

\* None, as an argument or a return value
None == <<-1>>

\* a key that a JSON object does not have
Missing == <<-2>>

\* `if x:` on an Optional[str]: None and "" are false
Truthy(x) == x # None /\ x # <<>>

\* "7", "12": the uids of the calls
U1 == <<55>>

U2 == <<49, 50>>

UIDs == {U1, U2}

\* name arguments: None, "", "a"
NameArgs == {None, <<>>, <<97>>}

\* "#000000"
Black == <<35, 48, 48, 48, 48, 48, 48>>

\* (name, color) arguments of update_streamer_info: each None, "" or a text
UpdateArgs == { <<None, None>>, <<<<>>, None>>, <<None, <<>>>>,
                <<<<97>>, None>>, <<None, Black>>, <<<<97>>, Black>> }

\* self._default_colors
DefaultColors == <<
    <<35, 70, 70, 54, 66, 54, 66>>,  \* #FF6B6B
    <<35, 52, 69, 67, 68, 67, 52>>,  \* #4ECDC4
    <<35, 52, 53, 66, 55, 68, 49>>,  \* #45B7D1
    <<35, 57, 54, 67, 69, 66, 52>>,  \* #96CEB4
    <<35, 70, 70, 69, 69, 65, 68>>,  \* #FFEEAD
    <<35, 68, 52, 65, 53, 65, 53>>,  \* #D4A5A5
    <<35, 57, 66, 53, 57, 66, 54>>,  \* #9B59B6
    <<35, 51, 52, 57, 56, 68, 66>>,  \* #3498DB
    <<35, 69, 54, 55, 69, 50, 50>>,  \* #E67E22
    <<35, 50, 69, 67, 67, 55, 49>>   \* #2ECC71
    >>

\* a StreamerProfile dict
StreamerProfile(uid, name, color, created_at) ==
    [json |-> "object", uid |-> uid, name |-> name, color |-> color,
     created_at |-> created_at]

\* a JSON object without a "uid" key
NoUidObject == StreamerProfile(Missing, <<97>>, Missing, -1)

\* a JSON value that is not an object (a number, a string)
Scalar == [json |-> "scalar", uid |-> Missing, name |-> Missing, color |-> Missing,
           created_at |-> -1]

----------------------------------------------------------------------------
(* The insertion-ordered dict self._cache *)

Keys(c) == {c[i][1] : i \in DOMAIN c}

IndexOf(c, k) == CHOOSE i \in DOMAIN c : c[i][1] = k

\* list(self._cache.values())
Values(c) == [i \in DOMAIN c |-> c[i][2]]

\* self._cache.get(k): <<>> for None
dict_get(c, k) == IF k \in Keys(c) THEN <<c[IndexOf(c, k)][2]>> ELSE <<>>

\* mutant: the assignment replaces the whole dict
dict_set_replace(c, k, v) == << <<k, v>> >>

\* self._cache[k] = v: an existing key keeps its position
dict_set(c, k, v) ==
    IF k \in Keys(c) THEN [c EXCEPT ![IndexOf(c, k)] = <<k, v>>]
    ELSE Append(c, <<k, v>>)

\* {s['uid']: s for s in streamers}
RECURSIVE dict_by_uid(_)
dict_by_uid(streamers) ==
    IF streamers = <<>> THEN <<>>
    ELSE LET n == Len(streamers)
         IN  dict_set(dict_by_uid(SubSeq(streamers, 1, n - 1)),
                      streamers[n].uid, streamers[n])

----------------------------------------------------------------------------
(* The backing store *)

\* no file at json_path
FileMissing == [kind |-> "missing", streamers |-> <<>>, entries |-> <<>>]

\* a file json.load cannot parse (also a truncated write)
Unparseable == [kind |-> "garbage", streamers |-> <<>>, entries |-> <<>>]

\* a JSON document whose top-level value is not an object
NonObject == [kind |-> "nonobject", streamers |-> <<>>, entries |-> <<>>]

\* an object whose "streamers" value is not a list
StreamersNotList == [kind |-> "badstreamers", streamers |-> <<>>, entries |-> <<>>]

\* {"streamers": [...]}
CanonicalDoc(streamers) == [kind |-> "canonical", streamers |-> streamers, entries |-> <<>>]

\* an object without a "streamers" key: {key: value, ...}
FlatDoc(entries) == [kind |-> "flat", streamers |-> <<>>, entries |-> entries]

\* s['uid'] evaluates: s is a dict that has the key
HasUid(s) == s.json = "object" /\ s.uid # Missing

\* outcomes of open(..., 'w') + json.dump
WriteOutcomes == {"ok", "open_failed", "truncated"}

\* _save_file(data) with outcome w: the exception is caught; a failed open leaves
\* the file as it was, a failed dump leaves a truncated file
save_file(d, data, w) ==
    CASE w = "ok" -> data
      [] w = "open_failed" -> d
      [] OTHER -> Unparseable

\* mutant: the cache itself is dumped, a flat map keyed by uid
save_data_flat(c) == FlatDoc(c)

\* the data save() hands to _save_file
save_data(c) == CanonicalDoc(Values(c))

\* mutant: a flat map is accepted without the check of its values
reload_unchecked(d, c) ==
    CASE d.kind \in {"missing", "garbage"} -> [cache |-> <<>>, raised |-> FALSE]
      [] d.kind = "canonical" ->
           IF \A i \in DOMAIN d.streamers : HasUid(d.streamers[i])
           THEN [cache |-> dict_by_uid(d.streamers), raised |-> FALSE]
           ELSE [cache |-> c, raised |-> TRUE]
      [] d.kind = "flat" -> [cache |-> d.entries, raised |-> FALSE]
      [] OTHER -> [cache |-> <<>>, raised |-> FALSE]

\* reload(): the cache it leaves and whether it raises (KeyError / TypeError from
\* s['uid'] are not caught, and then self._cache is not assigned)
reload(d, c) ==
    CASE d.kind \in {"missing", "garbage"} -> [cache |-> <<>>, raised |-> FALSE]
      [] d.kind = "canonical" ->
           IF \A i \in DOMAIN d.streamers : HasUid(d.streamers[i])
           THEN [cache |-> dict_by_uid(d.streamers), raised |-> FALSE]
           ELSE [cache |-> c, raised |-> TRUE]
      [] d.kind = "flat" ->
           IF \A i \in DOMAIN d.entries : HasUid(d.entries[i][2])
           THEN [cache |-> d.entries, raised |-> FALSE]
           ELSE [cache |-> <<>>, raised |-> FALSE]
      [] OTHER -> [cache |-> <<>>, raised |-> FALSE]

----------------------------------------------------------------------------
(* Helpers of the registry *)

RECURSIVE SumOrd(_)
SumOrd(s) == IF s = <<>> THEN 0 ELSE Head(s) + SumOrd(Tail(s))

\* mutant: the color is picked by the length of the uid
pick_random_color_by_len(uid) == DefaultColors[(Len(uid) % Len(DefaultColors)) + 1]

\* _pick_random_color(uid)
pick_random_color(uid) == DefaultColors[(SumOrd(uid) % Len(DefaultColors)) + 1]

\* _get_current_timestamp(): strftime at one-second resolution, kept as the second
get_current_timestamp(now) == now

\* f"主播_{uid}"
default_name(uid) == <<20027, 25773, 95>> \o uid

\* get_streamer(uid)
get_streamer(c, uid) == dict_get(c, uid)

\* get_all_streamers()
get_all_streamers(c) == Values(c)

\* new_profile of register_new_streamer(uid, name), datetime.now() returning now
new_profile(uid, name, now) ==
    StreamerProfile(uid, IF ~Truthy(name) THEN default_name(uid) ELSE name,
                    pick_random_color(uid), get_current_timestamp(now))

\* mutant: the name is assigned to the color key as well
updated_copy_paste(p, name, color) ==
    LET p1 == IF Truthy(name) THEN [p EXCEPT !.name = name, !.color = name] ELSE p
    IN  IF Truthy(color) THEN [p1 EXCEPT !.color = color] ELSE p1

\* the profile p after the assignments of update_streamer_info(uid, name, color)
updated(p, name, color) ==
    LET p1 == IF Truthy(name) THEN [p EXCEPT !.name = name] ELSE p
    IN  IF Truthy(color) THEN [p1 EXCEPT !.color = color] ELSE p1

----------------------------------------------------------------------------
(* Documents found at json_path when the program starts *)

P1 == StreamerProfile(U1, <<97>>, pick_random_color(U1), 0)

P1b == StreamerProfile(U1, default_name(U1), Black, 0)

P2 == StreamerProfile(U2, default_name(U2), pick_random_color(U2), 0)

InitDocs ==
    { FileMissing, Unparseable, NonObject, StreamersNotList,
      CanonicalDoc(<<>>), CanonicalDoc(<<P1>>), CanonicalDoc(<<P1, P2>>),
      CanonicalDoc(<<P1, P1b>>),
      CanonicalDoc(<<NoUidObject>>), CanonicalDoc(<<P1, Scalar>>),
      FlatDoc(<<>>), FlatDoc(<< <<U1, P1>> >>), FlatDoc(<< <<U1, P2>> >>),
      FlatDoc(<< <<U1, NoUidObject>> >>), FlatDoc(<< <<U1, P1>>, <<U2, Scalar>> >>) }

----------------------------------------------------------------------------
(* Actions *)

\* the file system fails a write at most MaxFaults times
Outcomes == IF faults < MaxFaults THEN WriteOutcomes ELSE {"ok"}

\* failed writes among the outcomes ws
Failed(ws) == Cardinality({i \in DOMAIN ws : ws[i] # "ok"})

\* no update_streamer_info call yet
NoArgs == <<None, None>>

NoCall == [op |-> "none", uid |-> None]

Call(op, uid) == [op |-> op, uid |-> uid]

\* a registry object not constructed yet
NoPeer == [phase |-> "new", cache |-> <<>>]

\* a target_path that does not exist
NoTarget == [kind |-> "missing", path |-> <<>>, entries |-> <<>>]

\* no call of FileScanner
ScannerIdle ==
    /\ target = NoTarget
    /\ parts = <<>>
    /\ results = <<>>
    /\ scanned = "no"
    /\ file_list = <<>>
    /\ grouped = <<>>

Init ==
    /\ phase = "new"
    /\ disk \in InitDocs
    /\ cache = <<>>
    /\ clock = 0
    /\ call = NoCall
    /\ ret = <<>>
    /\ raised = FALSE
    /\ wres = <<>>
    /\ faults = 0
    /\ gorSeen = {}
    /\ gorUnseen = {}
    /\ gorWrites = 0
    /\ args = NoArgs
    /\ ScannerIdle
    /\ peer = NoPeer

\* __init__: _ensure_config_exists(), then reload()
construct(w) ==
    /\ phase = "new"
    /\ LET absent == disk.kind = "missing"
           d1 == IF absent THEN save_file(disk, CanonicalDoc(<<>>), w) ELSE disk
           r == reload(d1, <<>>)
       IN  /\ disk' = d1
           /\ cache' = r.cache
           /\ raised' = r.raised
           /\ phase' = IF r.raised THEN "failed" ELSE "ready"
           /\ wres' = IF absent THEN <<w>> ELSE <<>>
    /\ call' = Call("init", None)
    /\ ret' = <<>>
    /\ faults' = faults + Failed(wres')
    /\ UNCHANGED clock

\* reload()
do_reload ==
    /\ phase = "ready"
    /\ LET r == reload(disk, cache)
       IN  /\ cache' = r.cache
           /\ raised' = r.raised
    /\ call' = Call("reload", None)
    /\ ret' = <<>>
    /\ wres' = <<>>
    /\ UNCHANGED <<phase, disk, clock, faults>>

\* self.save() with write outcome w, once self._cache is assigned
do_save(w) ==
    /\ disk' = save_file(disk, save_data(cache'), w)
    /\ wres' = <<w>>
    /\ faults' = faults + Failed(<<w>>)

\* save()
save(w) ==
    /\ phase = "ready"
    /\ UNCHANGED cache
    /\ do_save(w)
    /\ call' = Call("save", None)
    /\ ret' = <<>>
    /\ raised' = FALSE
    /\ UNCHANGED <<phase, clock>>

\* mutant: the new profile is saved but not stored in the cache
register_body_no_insert(uid, name, now, w) ==
    /\ UNCHANGED cache
    /\ disk' = save_file(disk, save_data(dict_set(cache, uid, new_profile(uid, name, now))), w)
    /\ wres' = <<w>>
    /\ faults' = faults + Failed(<<w>>)
    /\ ret' = <<new_profile(uid, name, now)>>
    /\ clock' = now

\* mutant: the profile is stored only when the write succeeded
register_body_rollback(uid, name, now, w) ==
    /\ cache' = IF w = "ok" THEN dict_set(cache, uid, new_profile(uid, name, now)) ELSE cache
    /\ do_save(w)
    /\ ret' = <<new_profile(uid, name, now)>>
    /\ clock' = now

\* the body of register_new_streamer(uid, name), datetime.now() returning now
register_body(uid, name, now, w) ==
    /\ cache' = dict_set(cache, uid, new_profile(uid, name, now))
    /\ do_save(w)
    /\ ret' = <<new_profile(uid, name, now)>>
    /\ clock' = now

\* register_new_streamer(uid, name)
register_new_streamer(uid, name, now, w) ==
    /\ phase = "ready"
    /\ register_body(uid, name, now, w)
    /\ call' = Call("register_new_streamer", uid)
    /\ raised' = FALSE
    /\ UNCHANGED phase

\* mutant: no presence check, every call registers
get_or_register_always(uid, name, now, w) ==
    /\ phase = "ready"
    /\ register_body(uid, name, now, w)
    /\ call' = Call("get_or_register", uid)
    /\ raised' = FALSE
    /\ UNCHANGED phase

\* get_or_register(uid, name)
get_or_register(uid, name, now, w) ==
    /\ phase = "ready"
    /\ IF uid \in Keys(cache)
       THEN /\ ret' = dict_get(cache, uid)
            /\ wres' = <<>>
            /\ UNCHANGED <<cache, disk, clock, faults>>
       ELSE register_body(uid, name, now, w)
    /\ call' = Call("get_or_register", uid)
    /\ raised' = FALSE
    /\ UNCHANGED phase

\* mutant: an absent uid is created instead of ignored
update_streamer_info_upsert(uid, name, color, w) ==
    /\ phase = "ready"
    /\ cache' = dict_set(cache, uid,
                         updated(IF uid \in Keys(cache) THEN cache[IndexOf(cache, uid)][2]
                                 ELSE new_profile(uid, None, clock), name, color))
    /\ IF Truthy(name) \/ Truthy(color)
       THEN do_save(w)
       ELSE /\ wres' = <<>>
            /\ UNCHANGED <<disk, faults>>
    /\ call' = Call("update_streamer_info", uid)
    /\ ret' = <<>>
    /\ raised' = FALSE
    /\ UNCHANGED <<phase, clock>>

\* update_streamer_info(uid, name, color)
update_streamer_info(uid, name, color, w) ==
    /\ phase = "ready"
    /\ IF uid \notin Keys(cache)
       THEN /\ wres' = <<>>
            /\ UNCHANGED <<cache, disk, faults>>
       ELSE /\ cache' = dict_set(cache, uid,
                                 updated(cache[IndexOf(cache, uid)][2], name, color))
            /\ IF Truthy(name) \/ Truthy(color)
               THEN do_save(w)
               ELSE /\ wres' = <<>>
                    /\ UNCHANGED <<disk, faults>>
    /\ call' = Call("update_streamer_info", uid)
    /\ ret' = <<>>
    /\ raised' = FALSE
    /\ UNCHANGED <<phase, clock>>

\* the clock is monotone: what datetime.now() can return next
Now == clock .. MaxClock

Construct == \E w \in Outcomes : construct(w)

Reload == do_reload

Save == \E w \in Outcomes : save(w)

Register == \E uid \in UIDs, name \in NameArgs, now \in Now, w \in Outcomes :
                register_new_streamer(uid, name, now, w)

\* the clock and the file system are consulted only when the call registers
GetOrRegister == \E uid \in UIDs, name \in NameArgs :
                     IF uid \in Keys(cache)
                     THEN get_or_register(uid, name, clock, "ok")
                     ELSE \E now \in Now, w \in Outcomes : get_or_register(uid, name, now, w)

\* updates that provide nothing, an empty name, or a name and a color
Update == \E uid \in UIDs, a \in {<<None, None>>, <<<<>>, None>>, <<<<97>>, Black>>},
             w \in Outcomes :
              update_streamer_info(uid, a[1], a[2], w)

\* the history of the current run of get_or_register calls
GorHistory ==
    IF call'.op = "get_or_register"
    THEN /\ gorSeen' = gorSeen \cup {call'.uid}
         /\ gorUnseen' = IF call'.uid \notin gorSeen /\ call'.uid \notin Keys(cache)
                         THEN gorUnseen \cup {call'.uid} ELSE gorUnseen
         /\ gorWrites' = gorWrites + Len(wres')
         /\ UNCHANGED <<args, scanner, peer>>
    ELSE UNCHANGED hist

Next ==
    \/ Construct /\ UNCHANGED hist
    \/ Reload /\ UNCHANGED hist
    \/ Save /\ UNCHANGED hist
    \/ Register /\ UNCHANGED hist
    \/ GetOrRegister /\ UNCHANGED hist
    \/ Update /\ UNCHANGED hist

Spec == Init /\ [][Next]_vars

----------------------------------------------------------------------------
(* Runs of get_or_register calls on a constructed registry, with their history *)

NextGor ==
    \/ Construct /\ GorHistory
    \/ GetOrRegister /\ GorHistory

SpecGor == Init /\ [][NextGor]_vars

----------------------------------------------------------------------------
(* Registrations and updates, with the arguments of the updates as history *)

gor == <<gorSeen, gorUnseen, gorWrites>>

UpdateWithArgs == \E uid \in UIDs, a \in UpdateArgs, w \in Outcomes :
                      update_streamer_info(uid, a[1], a[2], w) /\ args' = a

\* registrations whose write succeeds
RegisterSaved == \E uid \in UIDs, name \in NameArgs, now \in Now :
                     register_new_streamer(uid, name, now, "ok")

NextUpdate ==
    \/ Construct /\ UNCHANGED hist
    \/ RegisterSaved /\ args' = NoArgs /\ UNCHANGED <<gor, scanner, peer>>
    \/ UpdateWithArgs /\ UNCHANGED <<gor, scanner, peer>>

SpecUpdate == Init /\ [][NextUpdate]_vars

----------------------------------------------------------------------------
(* First registration of any uid string of at most MaxUidLen characters *)

\* the digits and "a"
UidChars == (48 .. 57) \cup {97}

UidStrings == UNION {[1 .. n -> UidChars] : n \in 0 .. MaxUidLen}

\* the first call after __init__ registers uid
RegisterAny ==
    /\ call.op = "init"
    /\ \E uid \in UidStrings, now \in Now, w \in Outcomes :
           register_new_streamer(uid, None, now, w)

NextColor ==
    \/ Construct /\ UNCHANGED hist
    \/ RegisterAny /\ UNCHANGED hist

SpecColor == Init /\ [][NextColor]_vars

----------------------------------------------------------------------------
(* FileScanner (src/src/utils/file_scanner.py): text *)

\* characters of file names
Hyphen == <<45>>

Slash == <<47>>

\* \d of a str pattern: the ASCII digits and the other decimal digits of
\* Unicode, of which the model has the Arabic-Indic ones
IsDigit(c) == c \in (48 .. 57) \cup (1632 .. 1641)

\* the value int() gives a decimal digit
DigitValue(c) == IF c <= 57 THEN c - 48 ELSE c - 1632

\* the character s[i], or -1 outside s
CharAt(s, i) == IF i \in 1 .. Len(s) THEN s[i] ELSE -1

\* the number of characters \d* takes from position i of s
RECURSIVE DigitRun(_, _)
DigitRun(s, i) == IF IsDigit(CharAt(s, i)) THEN 1 + DigitRun(s, i + 1) ELSE 0

\* s[i .. j]
Slice(s, i, j) == SubSeq(s, i, j)

\* re.IGNORECASE: the characters compared equal to a lower-case pattern
\* letter are the letter, its capital, and U+017F for s, U+212A for k
Lower(c) ==
    IF c \in 65 .. 90 THEN c + 32
    ELSE IF c = 383 THEN 115
    ELSE IF c = 8490 THEN 107
    ELSE c

\* the literal lit of a pattern matches s at position i
MatchesLiteral(s, i, lit) ==
    \A k \in 1 .. Len(lit) : Lower(CharAt(s, i + k - 1)) = Lower(lit[k])

\* $ without re.MULTILINE: at the end of s, or just before a newline that ends s;
\* e is the number of characters matched so far
AtEnd(s, e) ==
    \/ e = Len(s)
    \/ e = Len(s) - 1 /\ s[Len(s)] = 10

DotLog == <<46, 108, 111, 103>>

DotCsv == <<46, 99, 115, 118>>

\* a failed match
NoMatch == <<>>

\* LOG_PATTERN.match(s).groups(): <<uid, year, month, day>>, or NoMatch.
\* Each \d group is followed by a character that is not a digit, so the only
\* match takes the whole run of digits.
LOG_PATTERN(s) ==
    LET n1 == DigitRun(s, 1)
        p2 == n1 + 2
        n2 == DigitRun(s, p2)
        p3 == p2 + 5
        n3 == DigitRun(s, p3)
        p4 == p3 + n3 + 1
        n4 == DigitRun(s, p4)
        pe == p4 + n4
    IN  IF /\ n1 >= 1
           /\ CharAt(s, n1 + 1) = 95
           /\ n2 = 4
           /\ CharAt(s, p2 + 4) = 45
           /\ n3 \in {1, 2}
           /\ CharAt(s, p3 + n3) = 45
           /\ n4 \in {1, 2}
           /\ MatchesLiteral(s, pe, DotLog)
           /\ AtEnd(s, pe + 3)
        THEN <<Slice(s, 1, n1), Slice(s, p2, p2 + 3), Slice(s, p3, p3 + n3 - 1),
               Slice(s, p4, p4 + n4 - 1)>>
        ELSE NoMatch

\* CSV_PATTERN.match(s).groups(): <<uid, year, month>>, or NoMatch
CSV_PATTERN(s) ==
    LET n1 == DigitRun(s, 1)
        p2 == n1 + 2
        n2 == DigitRun(s, p2)
        p3 == p2 + 5
        n3 == DigitRun(s, p3)
        pe == p3 + n3
    IN  IF /\ n1 >= 1
           /\ CharAt(s, n1 + 1) = 95
           /\ n2 = 4
           /\ CharAt(s, p2 + 4) = 45
           /\ n3 \in {1, 2}
           /\ MatchesLiteral(s, pe, DotCsv)
           /\ AtEnd(s, pe + 3)
        THEN <<Slice(s, 1, n1), Slice(s, p2, p2 + 3), Slice(s, p3, p3 + n3 - 1)>>
        ELSE NoMatch

\* int(s) of a string of decimal digits
RECURSIVE int(_)
int(s) == IF s = <<>> THEN 0
          ELSE 10 * int(SubSeq(s, 1, Len(s) - 1)) + DigitValue(s[Len(s)])

\* mutant: f"{n}", no padding
format_d(n) == IF n < 10 THEN <<48 + n>> ELSE <<48 + (n \div 10), 48 + (n % 10)>>

\* f"{n:02d}" for 0 <= n <= 99
format_02d(n) == <<48 + (n \div 10), 48 + (n % 10)>>

\* the position of the last "/" of path, 0 when there is none
RECURSIVE LastSlash(_, _)
LastSlash(path, i) ==
    IF i = 0 THEN 0 ELSE IF path[i] = 47 THEN i ELSE LastSlash(path, i - 1)

\* os.path.basename(path)
basename(path) == SubSeq(path, LastSlash(path, Len(path)) + 1, Len(path))

\* os.path.join(root, file) for a root that does not end in "/"
join(root, file) == root \o Slash \o file

----------------------------------------------------------------------------
(* FileScanner: _parse_file, scan, group_by_uid *)

FileMeta(file_path, file_name, file_type, uid, date_str, file_size) ==
    [file_path |-> file_path, file_name |-> file_name, file_type |-> file_type,
     uid |-> uid, date_str |-> date_str, file_size |-> file_size]

\* what os.path.getsize(file_path) does: return size, or raise OSError
Stat(ok, size) == [ok |-> ok, size |-> size]

\* a call that returned meta (<<>> for None, <<m>> for a record)
Returned(meta) == [raised |-> FALSE, meta |-> meta]

\* a call that raised OSError
RaisedOSError == [raised |-> TRUE, meta |-> <<>>]

\* _parse_file(file_path), os.path.getsize(file_path) behaving as st
parse_file(file_path, st) ==
    IF ~st.ok THEN RaisedOSError
    ELSE LET filename == basename(file_path)
             log_match == LOG_PATTERN(filename)
             csv_match == CSV_PATTERN(filename)
         IN  IF log_match # NoMatch
             THEN Returned(<<FileMeta(file_path, filename, "log", log_match[1],
                                      log_match[2] \o Hyphen \o format_02d(int(log_match[3]))
                                          \o Hyphen \o format_02d(int(log_match[4])),
                                      st.size)>>)
             ELSE IF csv_match # NoMatch
             THEN Returned(<<FileMeta(file_path, filename, "csv", csv_match[1],
                                      csv_match[2] \o Hyphen \o format_02d(int(csv_match[3])),
                                      st.size)>>)
             ELSE Returned(<<>>)

\* a < b for str: by code point, a proper prefix first
RECURSIVE StrLess(_, _)
StrLess(a, b) ==
    IF b = <<>> THEN FALSE
    ELSE IF a = <<>> THEN TRUE
    ELSE IF a[1] # b[1] THEN a[1] < b[1]
    ELSE StrLess(Tail(a), Tail(b))

\* list.sort inserts x after the records whose file_name is not greater (stable)
RECURSIVE insert_sorted(_, _)
insert_sorted(sorted, x) ==
    IF sorted = <<>> THEN <<x>>
    ELSE IF StrLess(x.file_name, sorted[Len(sorted)].file_name)
         THEN Append(insert_sorted(SubSeq(sorted, 1, Len(sorted) - 1), x), sorted[Len(sorted)])
         ELSE Append(sorted, x)

\* results.sort(key=lambda x: x['file_name'])
RECURSIVE sort_by_file_name(_)
sort_by_file_name(rs) ==
    IF rs = <<>> THEN <<>>
    ELSE insert_sorted(sort_by_file_name(SubSeq(rs, 1, Len(rs) - 1)), rs[Len(rs)])

\* a scan that returned rs
ScanReturned(rs) == [raised |-> FALSE, results |-> rs]

\* a scan that raised
ScanRaised == [raised |-> TRUE, results |-> <<>>]

\* the loop over os.walk(target_path): entries i.. of the traversal, acc collected so far
RECURSIVE walk_loop(_, _, _)
walk_loop(entries, i, acc) ==
    IF i > Len(entries) THEN ScanReturned(acc)
    ELSE LET r == parse_file(join(entries[i].root, entries[i].file), entries[i].stat)
         IN  IF r.raised THEN ScanRaised
             ELSE walk_loop(entries, i + 1, acc \o r.meta)

\* what scan finds before it sorts
scan_found(t) ==
    IF t.kind = "file"
    THEN LET r == parse_file(t.path, t.entries[1].stat)
         IN  IF r.raised THEN ScanRaised ELSE ScanReturned(r.meta)
    ELSE IF t.kind = "dir" THEN walk_loop(t.entries, 1, <<>>)
    ELSE ScanReturned(<<>>)

\* mutant: the results are returned in traversal order
scan_unsorted(t) ==
    IF t.kind = "missing" THEN ScanReturned(<<>>)
    ELSE scan_found(t)

\* scan(target_path), the file system holding t at target_path
scan(t) ==
    IF t.kind = "missing" THEN ScanReturned(<<>>)
    ELSE LET found == scan_found(t)
         IN  IF found.raised THEN ScanRaised
             ELSE ScanReturned(sort_by_file_name(found.results))


\* grouped after the loop of group_by_uid over fl
RECURSIVE group_loop(_)
group_loop(fl) ==
    IF fl = <<>> THEN <<>>
    ELSE LET g == group_loop(SubSeq(fl, 1, Len(fl) - 1))
             item == fl[Len(fl)]
             g1 == IF item.uid \notin Keys(g) THEN dict_set(g, item.uid, <<>>) ELSE g
         IN  dict_set(g1, item.uid, Append(g1[IndexOf(g1, item.uid)][2], item))

\* mutant: grouped[uid] = [item], a group keeps its last record only
group_by_uid_last(fl) ==
    [i \in DOMAIN group_loop(fl) |->
        <<group_loop(fl)[i][1], <<group_loop(fl)[i][2][Len(group_loop(fl)[i][2])]>> >>]

\* group_by_uid(file_list): the dict as a sequence of <<uid, records>> in insertion order
group_by_uid(fl) == group_loop(fl)

----------------------------------------------------------------------------
(* FileScanner: calls *)

\* the variables of StreamerRegistry
registry == <<phase, disk, cache, clock, call, ret, raised, wres, faults,
              gorSeen, gorUnseen, gorWrites, args, peer>>

\* no registry has been constructed
RegistryIdle ==
    /\ phase = "new"
    /\ disk = FileMissing
    /\ cache = <<>>
    /\ clock = 0
    /\ call = NoCall
    /\ ret = <<>>
    /\ raised = FALSE
    /\ wres = <<>>
    /\ faults = 0
    /\ gorSeen = {}
    /\ gorUnseen = {}
    /\ gorWrites = 0
    /\ args = NoArgs
    /\ peer = NoPeer

\* results = FileScanner.scan(target_path)
Scan ==
    /\ scanned = "no"
    /\ LET r == scan(target)
       IN  /\ results' = r.results
           /\ scanned' = IF r.raised THEN "raised" ELSE "returned"
    /\ UNCHANGED <<registry, target, parts, file_list, grouped>>

\* grouped = FileScanner.group_by_uid(file_list)
Group ==
    /\ grouped = <<>>
    /\ grouped' = <<group_by_uid(file_list)>>
    /\ UNCHANGED <<registry, target, parts, results, scanned, file_list>>

\* grouped = FileScanner.group_by_uid(results), as the scanning workflow does
GroupResults ==
    /\ scanned = "returned"
    /\ grouped = <<>>
    /\ file_list' = results
    /\ grouped' = <<group_by_uid(results)>>
    /\ UNCHANGED <<registry, target, parts, results, scanned>>

----------------------------------------------------------------------------
(* FileScanner: the file systems scanned *)

\* the most files a scanned directory tree holds
MaxFiles == 3

\* the most records passed to group_by_uid
MaxList == 3

\* "/d" and "/d/s": a directory and its subdirectory
D1 == <<47, 100>>

D2 == <<47, 100, 47, 115>>

\* "7_2025-5-9.log", "7_2025-5-10.LOG", "12_2025-5.csv", "a.txt"
ScanNames == {<<55, 95, 50, 48, 50, 53, 45, 53, 45, 57, 46, 108, 111, 103>>, <<55, 95, 50, 48, 50, 53, 45, 53, 45, 49, 48, 46, 76, 79, 71>>, <<49, 50, 95, 50, 48, 50, 53, 45, 53, 46, 99, 115, 118>>, <<97, 46, 116, 120, 116>>}

\* a file of the tree: os.walk yields file under root, its size is that of its directory
WalkEntry(root, file, ok) == [root |-> root, file |-> file, stat |-> Stat(ok, Len(root))]

WalkEntries == {WalkEntry(root, file, ok) : root \in {D1, D2}, file \in ScanNames, ok \in BOOLEAN}

\* os.walk is top-down: the files of a directory come before those of its
\* subdirectory, in the order os.listdir gives; no path comes twice
Walks ==
    {w \in UNION {[1 .. n -> WalkEntries] : n \in 0 .. MaxFiles} :
        \A i, j \in DOMAIN w :
            i < j => /\ ~(w[i].root = w[j].root /\ w[i].file = w[j].file)
                     /\ ~(w[i].root = D2 /\ w[j].root = D1)}

DirTarget(path, entries) == [kind |-> "dir", path |-> path, entries |-> entries]

FileTarget(e) == [kind |-> "file", path |-> join(e.root, e.file), entries |-> <<e>>]

\* neither a file nor a directory (a FIFO, a socket)
OtherTarget == [kind |-> "other", path |-> D1, entries |-> <<>>]

ScanTargets ==
    {NoTarget, OtherTarget} \cup {FileTarget(e) : e \in WalkEntries}
        \cup {DirTarget(D1, w) : w \in Walks}

\* no name written from parts
NoParts == <<>>

\* the parts file names are written from: "7", "007", "12", "a7", U+0665, ""
UidParts == {<<55>>, <<48, 48, 55>>, <<49, 50>>, <<97, 55>>, <<1637>>, <<>>}

\* "_", "-"
SepParts == {<<95>>, <<45>>}

\* "2025", "202", "20255"
YearParts == {<<50, 48, 50, 53>>, <<50, 48, 50>>, <<50, 48, 50, 53, 53>>}

\* "5", "05", "13", "123", ""
MonthParts == {<<53>>, <<48, 53>>, <<49, 51>>, <<49, 50, 51>>, <<>>}

\* no day, "1", "01", "32", "001"
DayParts == {None} \cup {<<49>>, <<48, 49>>, <<51, 50>>, <<48, 48, 49>>}

\* ".log", ".LOG", ".csv", ".c" U+017F "v", ".txt", ".log.bak", "", "xlog"
ExtParts == {<<46, 108, 111, 103>>, <<46, 76, 79, 71>>, <<46, 99, 115, 118>>, <<46, 99, 383, 118>>, <<46, 116, 120, 116>>, <<46, 108, 111, 103, 46, 98, 97, 107>>, <<>>, <<120, 108, 111, 103>>}

\* "" and a newline
TrailParts == {<<>>, <<10>>}

PartsSet == [uid : UidParts, sep : SepParts, year : YearParts, month : MonthParts,
             day : DayParts, ext : ExtParts, trail : TrailParts]

\* the file name written from parts p
NameOf(p) ==
    p.uid \o p.sep \o p.year \o Hyphen \o p.month
        \o (IF p.day = None THEN <<>> ELSE Hyphen \o p.day) \o p.ext \o p.trail

\* "12_2025-05.csv" in the subdirectory
OtherFile == WalkEntry(D2, <<49, 50, 95, 50, 48, 50, 53, 45, 48, 53, 46, 99, 115, 118>>, TRUE)

\* the file named from p: alone as target_path, alone in a directory, or
\* in a directory whose subdirectory holds OtherFile
ParseTargets(p) ==
    {FileTarget(WalkEntry(D1, NameOf(p), TRUE)),
     DirTarget(D1, <<WalkEntry(D1, NameOf(p), TRUE)>>),
     DirTarget(D1, <<WalkEntry(D1, NameOf(p), TRUE), OtherFile>>)}

\* records passed to group_by_uid: two of uid "7", one of "007", one of "12"
GroupRecords ==
    {FileMeta(join(D1, n[1]), n[1], n[2], n[3], n[4], 2) :
        n \in {<<<<55, 95, 50, 48, 50, 53, 45, 53, 45, 57, 46, 108, 111, 103>>, "log", <<55>>, <<50, 48, 50, 53, 45, 48, 53, 45, 48, 57>>>>,
               <<<<55, 95, 50, 48, 50, 53, 45, 53, 46, 99, 115, 118>>, "csv", <<55>>, <<50, 48, 50, 53, 45, 48, 53>>>>,
               <<<<48, 48, 55, 95, 50, 48, 50, 53, 45, 53, 46, 99, 115, 118>>, "csv", <<48, 48, 55>>, <<50, 48, 50, 53, 45, 48, 53>>>>,
               <<<<49, 50, 95, 50, 48, 50, 53, 45, 53, 46, 99, 115, 118>>, "csv", <<49, 50>>, <<50, 48, 50, 53, 45, 48, 53>>>>}}

FileLists == UNION {[1 .. n -> GroupRecords] : n \in 0 .. MaxList}

----------------------------------------------------------------------------
(* FileScanner: specifications *)

InitScan ==
    /\ RegistryIdle
    /\ target \in ScanTargets
    /\ parts = NoParts
    /\ results = <<>>
    /\ scanned = "no"
    /\ file_list = <<>>
    /\ grouped = <<>>

NextScan ==
    \/ Scan
    \/ GroupResults

\* scans of small directory trees, in every traversal order
SpecScan == InitScan /\ [][NextScan]_vars

InitParse ==
    /\ RegistryIdle
    /\ parts \in PartsSet
    /\ target \in ParseTargets(parts)
    /\ results = <<>>
    /\ scanned = "no"
    /\ file_list = <<>>
    /\ grouped = <<>>

\* scans of one file whose name is written from parts
SpecParse == InitParse /\ [][Scan]_vars

InitGroup ==
    /\ RegistryIdle
    /\ target = NoTarget
    /\ parts = NoParts
    /\ results = <<>>
    /\ scanned = "no"
    /\ file_list \in FileLists
    /\ grouped = <<>>

\* group_by_uid of any list of records
SpecGroup == InitGroup /\ [][Group]_vars

----------------------------------------------------------------------------
(* Claims *)

\* the number of entries of cache c whose key is k
Entries(c, k) == Cardinality({i \in DOMAIN c : c[i][1] = k})

\* C1: a get_or_register(u) that directly follows a get_or_register(u) returns a
\* profile with the same uid, name, color and created_at as the first one
\* returned, and the cache then holds exactly one entry for u.
C1_GetOrRegisterTwice ==
    [][(/\ call.op = "get_or_register"
        /\ call'.op = "get_or_register"
        /\ call'.uid = call.uid)
       => /\ Len(ret) = 1 /\ Len(ret') = 1
          /\ ret'[1].uid = ret[1].uid
          /\ ret'[1].name = ret[1].name
          /\ ret'[1].color = ret[1].color
          /\ ret'[1].created_at = ret[1].created_at
          /\ Entries(cache', call.uid) = 1]_vars

\* C1 witness: a get_or_register that found its uid registered, in a cache of two
C1_Witness ==
    /\ call.op = "get_or_register"
    /\ wres = <<>>
    /\ Len(ret) = 1
    /\ Len(cache) = 2
    /\ clock > 0

\* C2: in a run of get_or_register calls, after each call get_streamer(uid)
\* returns a profile, and the run has made at most as many persistence writes as
\* it has uids that were absent from the cache at their first call.
C2_OneWritePerUnseenUid ==
    /\ call.op = "get_or_register" => get_streamer(cache, call.uid) # <<>>
    /\ gorWrites <= Cardinality(gorUnseen)

\* C2 witness: a run that called both uids, one of them registered before the run
C2_Witness ==
    /\ call.op = "get_or_register"
    /\ gorSeen = UIDs
    /\ Cardinality(gorUnseen) = 1
    /\ gorWrites = 1
    /\ wres = <<>>

\* C3: update_streamer_info on a uid that is not in the cache leaves the cache and
\* the backing store as they were and makes no write attempt.
C3_UpdateAbsentIsNoOp ==
    [][(call'.op = "update_streamer_info" /\ call'.uid \notin Keys(cache))
       => /\ cache' = cache
          /\ disk' = disk
          /\ wres' = <<>>]_vars

\* C3 witness: an update of an absent uid, in a registry that holds another one
C3_Witness ==
    /\ call.op = "update_streamer_info"
    /\ call.uid \notin Keys(cache)
    /\ cache # <<>>
    /\ disk.kind = "canonical"

\* the profile cache c holds under key k
At(c, k) == c[IndexOf(c, k)][2]

\* the keys of cache c in insertion order
KeySeq(c) == [i \in DOMAIN c |-> c[i][1]]

\* an argument other than None
Given(x) == x # None

\* an argument other than None and ""
GivenNonEmpty(x) == x # None /\ x # <<>>

\* what a step update_streamer_info(uid, name, color) on a registered uid leaves
\* alone, nameGiven and colorGiven telling which fields count as provided
UpdateFrame(uid, nameGiven, colorGiven) ==
    /\ KeySeq(cache') = KeySeq(cache)
    /\ \A k \in Keys(cache) \ {uid} : At(cache', k) = At(cache, k)
    /\ At(cache', uid).uid = At(cache, uid).uid
    /\ At(cache', uid).created_at = At(cache, uid).created_at
    /\ ~nameGiven => At(cache', uid).name = At(cache, uid).name
    /\ ~colorGiven => At(cache', uid).color = At(cache, uid).color
    /\ Len(wres') = IF nameGiven \/ colorGiven THEN 1 ELSE 0

\* C4 as stated: update_streamer_info on a registered uid changes only the fields
\* that were provided (anything but None), and makes exactly one persistence write
\* when a field was provided and none otherwise.
C4_Original ==
    [][(call'.op = "update_streamer_info" /\ call'.uid \in Keys(cache))
       => UpdateFrame(call'.uid, Given(args'[1]), Given(args'[2]))]_vars

\* C4 amended: update_streamer_info on a registered uid changes only the fields
\* given a non-empty value; uid, created_at, the other fields and the other
\* profiles stay; it makes exactly one persistence write when a field was given a
\* non-empty value and none otherwise (None and "" both count as not provided).
C4_UpdateFrame ==
    [][(call'.op = "update_streamer_info" /\ call'.uid \in Keys(cache))
       => UpdateFrame(call'.uid, GivenNonEmpty(args'[1]), GivenNonEmpty(args'[2]))]_vars

\* C4 witness: an update that wrote, in a registry holding a second profile
C4_Witness ==
    /\ call.op = "update_streamer_info"
    /\ call.uid \in Keys(cache)
    /\ Len(wres) = 1
    /\ Len(cache) = 2
    /\ At(cache, call.uid).color = Black
    /\ At(cache, call.uid).created_at # clock
    /\ args = <<None, Black>>

\* cache c2 maps the same keys to the same profiles as cache c1
SameMapping(c1, c2) ==
    /\ Keys(c1) = Keys(c2)
    /\ \A k \in Keys(c1) : At(c1, k) = At(c2, k)

\* C5: a reload() that directly follows a save() whose write succeeded leaves a
\* cache with the same keys and, for each key, the same profile as before the save.
C5_SaveReloadRoundTrip ==
    [][(call.op = "save" /\ wres = <<"ok">> /\ call'.op = "reload")
       => SameMapping(cache, cache')]_vars

\* a canonical or flat-map document all of whose profiles carry a uid
WellFormed(d) ==
    \/ d.kind = "canonical" /\ \A i \in DOMAIN d.streamers : HasUid(d.streamers[i])
    \/ d.kind = "flat" /\ \A i \in DOMAIN d.entries : HasUid(d.entries[i][2])

\* C6: reload(), called by __init__ or by the user, never raises, whatever the
\* backing store holds, and leaves an empty cache when the content is neither a
\* well-formed canonical nor a well-formed flat-map document.
C6_ReloadNeverRaises ==
    call.op \in {"init", "reload"}
    => /\ ~raised
       /\ ~WellFormed(disk) => cache = <<>>

\* the calls that mutate the registry
Mutating == {"register_new_streamer", "get_or_register", "update_streamer_info"}

\* C7: while no persistence write has failed, right after a mutating call that
\* wrote, the backing store is {streamers: [...]} with the cache's values in
\* order; it is never the flat-map shape.
C7_DiskIsCanonicalCache ==
    (call.op \in Mutating /\ wres # <<>> /\ faults = 0)
    => /\ disk.kind = "canonical"
       /\ disk.streamers = [i \in DOMAIN cache |-> cache[i][2]]
       /\ disk.entries = <<>>

\* C7 witness: an update that wrote two profiles, the store having been a flat map
C7_Witness ==
    /\ call.op = "update_streamer_info"
    /\ wres = <<"ok">>
    /\ faults = 0
    /\ Len(cache) = 2
    /\ cache[1][1] # cache[1][2].uid

\* C8: while writes succeed, a uid that has a profile keeps its uid and created_at
\* through every operation.
C8_CreatedAtNeverChanges ==
    [][faults' = 0
       => \A k \in Keys(cache) \cap Keys(cache') :
            /\ At(cache', k).uid = At(cache, k).uid
            /\ At(cache', k).created_at = At(cache, k).created_at]_vars

\* C9 as stated: no operation, reload and failed writes included, removes a uid
\* that has a profile from the cache.
C9_Original ==
    [][\A k \in Keys(cache) : At(cache, k).uid = k => k \in Keys(cache')]_vars

\* C9 amended: get_or_register, register_new_streamer, update_streamer_info and
\* save never remove a key from the cache, whether or not their write fails; only
\* reload() can, since it replaces the cache by what the backing store holds.
C9_OnlyReloadRemoves ==
    [][call'.op # "reload" => Keys(cache) \subseteq Keys(cache')]_vars

\* C9 witness: a registration whose write failed, the cache holding two uids and
\* the backing store none
C9_Witness ==
    /\ call.op = "register_new_streamer"
    /\ wres # <<"ok">>
    /\ Keys(cache) = UIDs
    /\ disk.streamers = <<>>

\* the sum of the character codes of s, from its last character
RECURSIVE CodeSum(_)
CodeSum(s) == IF Len(s) = 0 THEN 0 ELSE s[Len(s)] + CodeSum(SubSeq(s, 1, Len(s) - 1))

\* C10: a newly registered profile has the color palette[(sum of the character
\* codes of uid) mod 10] of the 10-entry palette, in whatever registry state and
\* at whatever time the uid is registered.
C10_ColorIsPaletteOfCodeSum ==
    /\ Len(DefaultColors) = 10
    /\ call.op = "register_new_streamer"
       => /\ ret[1].color = DefaultColors[(CodeSum(call.uid) % 10) + 1]
          /\ At(cache, call.uid).color = ret[1].color

\* C10 witness: "99" registered at time 1 in a registry that held two profiles
C10_Witness ==
    /\ call.op = "register_new_streamer"
    /\ call.uid = <<57, 57>>
    /\ Len(cache) = 3
    /\ clock = 1
    /\ ret[1].color = DefaultColors[5]

----------------------------------------------------------------------------
(* Claims about FileScanner *)

\* a <= b in the lexicographic order of character codes
LexLeq(a, b) ==
    \E k \in 0 .. Len(a) :
        /\ k <= Len(b)
        /\ \A i \in 1 .. k : a[i] = b[i]
        /\ \/ k = Len(a)
           \/ k < Len(b) /\ a[k + 1] < b[k + 1]

\* the orders in which the sequence s can be visited
Orders(s) ==
    {[i \in DOMAIN s |-> s[f[i]]] :
        f \in {g \in [DOMAIN s -> DOMAIN s] : \A i, j \in DOMAIN s : g[i] = g[j] => i = j}}

\* C11: the records scan returns are sorted ascending by file_name, and when
\* the matching files of a directory tree have distinct names, every order in
\* which the traversal could have visited the tree gives the same sequence
C11_SortedWhateverTraversal ==
    scanned = "returned" =>
        /\ \A i, j \in DOMAIN results :
               i < j => LexLeq(results[i].file_name, results[j].file_name)
        /\ (/\ target.kind = "dir"
            /\ \A i, j \in DOMAIN results :
                   i # j => results[i].file_name # results[j].file_name)
           => \A w \in Orders(target.entries) :
                  scan(DirTarget(target.path, w)) = ScanReturned(results)

\* a scan of three matching files visited in another order than the sorted one
C11_Witness ==
    /\ scanned = "returned"
    /\ target.kind = "dir"
    /\ Len(results) = 3
    /\ results[1].file_name = target.entries[3].file
    /\ results[1].file_name # results[2].file_name
    /\ results[2].file_name # results[3].file_name

\* s is one or more digits
IsDigits(s) == s # <<>> /\ \A i \in DOMAIN s : IsDigit(s[i])

\* ext is lit up to the case of its letters
SameExt(ext, lit) ==
    Len(ext) = Len(lit) /\ \A i \in DOMAIN lit : Lower(ext[i]) = Lower(lit[i])

\* the name written from p is <digits>_<YYYY>-<M|MM>.., with nothing after the extension
DatedName(p) ==
    /\ IsDigits(p.uid)
    /\ p.sep = <<95>>
    /\ IsDigits(p.year) /\ Len(p.year) = 4
    /\ IsDigits(p.month) /\ Len(p.month) \in {1, 2}
    /\ p.trail = <<>>

\* the name written from p is in the log grammar <digits>_<YYYY>-<M|MM>-<D|DD>.log
InLogGrammar(p) ==
    /\ DatedName(p)
    /\ p.day # None /\ IsDigits(p.day) /\ Len(p.day) \in {1, 2}
    /\ SameExt(p.ext, DotLog)

\* the name written from p is in the summary grammar <digits>_<YYYY>-<M|MM>.csv
InCsvGrammar(p) ==
    /\ DatedName(p)
    /\ p.day = None
    /\ SameExt(p.ext, DotCsv)

\* the records of rs whose file_path is path
RecordsOf(rs, path) == SelectSeq(rs, LAMBDA r : r.file_path = path)

\* the path of the file named from parts
NamedPath == join(D1, NameOf(parts))

\* C12: scan emits exactly one record for each file whose base name is in the
\* log grammar or the summary grammar and none for any other file; the record
\* has file_type log or csv accordingly and the uid digits as written
C12_ExactlyTheGrammars ==
    (scanned = "returned" /\ parts # NoParts) =>
        /\ Len(RecordsOf(results, NamedPath))
               = IF InLogGrammar(parts) \/ InCsvGrammar(parts) THEN 1 ELSE 0
        /\ \A i \in DOMAIN results :
               results[i].file_path = NamedPath =>
                   /\ results[i].file_type = (IF InLogGrammar(parts) THEN "log" ELSE "csv")
                   /\ results[i].uid = parts.uid
                   /\ results[i].file_name = NameOf(parts)
        /\ Len(target.entries) = 2 =>
               /\ Len(RecordsOf(results, join(OtherFile.root, OtherFile.file))) = 1
               /\ Len(results) = Len(RecordsOf(results, NamedPath)) + 1

\* a one-digit part padded to two digits
Pad2(s) == IF Len(s) = 1 THEN <<48>> \o s ELSE s

\* C13: a log name gives date_str YYYY-MM-DD and a csv name YYYY-MM, month and
\* day in two digits whatever their padding in the name, with no calendar check
C13_DatePaddedNoCalendar ==
    (scanned = "returned" /\ parts # NoParts) =>
        /\ InLogGrammar(parts) =>
               \E i \in DOMAIN results :
                   /\ results[i].file_path = NamedPath
                   /\ results[i].uid = parts.uid
                   /\ results[i].file_type = "log"
                   /\ results[i].date_str = parts.year \o Hyphen \o Pad2(parts.month)
                                                \o Hyphen \o Pad2(parts.day)
        /\ InCsvGrammar(parts) =>
               \E i \in DOMAIN results :
                   /\ results[i].file_path = NamedPath
                   /\ results[i].uid = parts.uid
                   /\ results[i].file_type = "csv"
                   /\ results[i].date_str = parts.year \o Hyphen \o Pad2(parts.month)

\* the scan of "007_2025-5-1.log" returned date_str "2025-05-01"
C13_Witness ==
    /\ scanned = "returned"
    /\ parts # NoParts
    /\ NameOf(parts) = <<48, 48, 55, 95, 50, 48, 50, 53, 45, 53, 45, 49, 46, 108, 111, 103>>
    /\ Len(results) = 2
    /\ \E i \in DOMAIN results :
           results[i].uid = <<48, 48, 55>> /\ results[i].date_str = <<50, 48, 50, 53, 45, 48, 53, 45, 48, 49>>

\* the position of the first record of fl whose uid is k
FirstOf(fl, k) == CHOOSE i \in DOMAIN fl : fl[i].uid = k /\ \A j \in 1 .. i - 1 : fl[j].uid # k

\* the total length of the groups of g
RECURSIVE GroupedLen(_)
GroupedLen(g) == IF g = <<>> THEN 0 ELSE Len(g[1][2]) + GroupedLen(Tail(g))

\* C14: group_by_uid of a list with K distinct uids returns K groups, keyed in
\* order of first appearance, each holding the records of its uid in their
\* order in the list; together they hold as many records as the list
C14_GroupsPartitionInOrder ==
    grouped # <<>> =>
        LET g == grouped[1]
        IN  /\ Len(g) = Cardinality({file_list[i].uid : i \in DOMAIN file_list})
            /\ \A i, j \in DOMAIN g :
                   i < j => /\ g[i][1] # g[j][1]
                            /\ FirstOf(file_list, g[i][1]) < FirstOf(file_list, g[j][1])
            /\ \A i \in DOMAIN g :
                   g[i][2] = SelectSeq(file_list, LAMBDA r : r.uid = g[i][1])
            /\ GroupedLen(g) = Len(file_list)

\* three records grouped, the first and the last of one uid, the second of another
C14_Witness ==
    /\ grouped # <<>>
    /\ Len(file_list) = 3
    /\ file_list[1].uid = file_list[3].uid
    /\ file_list[1].uid # file_list[2].uid
    /\ file_list[1] # file_list[3]
    /\ Len(grouped[1]) = 2

\* the entries of w that can be stat'ed
Readable(w) == SelectSeq(w, LAMBDA e : e.stat.ok)

\* C15: a directory scan that meets an entry it cannot stat does not raise: it
\* returns what the scan of the other entries returns
C15_BadEntrySkipped ==
    (scanned # "no" /\ target.kind = "dir") =>
        /\ scanned = "returned"
        /\ results = scan(DirTarget(target.path, Readable(target.entries))).results

----------------------------------------------------------------------------
(* Calls whose persistence write may fail, followed by later calls *)

\* registrations at the current second
RegisterNow == \E uid \in UIDs, name \in NameArgs, w \in Outcomes :
                   register_new_streamer(uid, name, clock, w)

NextFail ==
    \/ Construct /\ UNCHANGED hist
    \/ RegisterNow /\ args' = NoArgs /\ UNCHANGED <<gor, scanner, peer>>
    \/ UpdateWithArgs /\ UNCHANGED <<gor, scanner, peer>>
    \/ GetOrRegister /\ args' = NoArgs /\ UNCHANGED <<gor, scanner, peer>>
    \/ Save /\ args' = NoArgs /\ UNCHANGED <<gor, scanner, peer>>

SpecFail == Init /\ [][NextFail]_vars

----------------------------------------------------------------------------
(* Two registry objects on the same json_path, their calls interleaved *)

\* the next call is made on the other registry object: phase and cache are
\* those of the object being called, peer those of the other one
Switch ==
    /\ peer' = [phase |-> phase, cache |-> cache]
    /\ phase' = peer.phase
    /\ cache' = peer.cache
    /\ call' = NoCall
    /\ ret' = <<>>
    /\ raised' = FALSE
    /\ wres' = <<>>
    /\ UNCHANGED <<disk, clock, faults, gor, args, scanner>>

NextTwo ==
    \/ Construct /\ UNCHANGED hist
    \/ RegisterNow /\ UNCHANGED hist
    \/ Update /\ UNCHANGED hist
    \/ Switch

\* the store is absent or canonical when the first object is constructed
InitTwo ==
    /\ Init
    /\ disk \in {FileMissing, CanonicalDoc(<<>>), CanonicalDoc(<<P1>>)}

SpecTwo == InitTwo /\ [][NextTwo]_vars

----------------------------------------------------------------------------
(* Claims about the backing store of StreamerRegistry *)

\* v is a JSON object that has a uid field
ProfileShaped(v) == v.json = "object" /\ v.uid # Missing

\* C16: reload() (called by __init__ or by the user) on a flat-map document
\* takes the document's key -> value mapping as the cache, in the document's
\* order, when every value is an object with a uid field, and leaves an empty
\* cache otherwise; it does not raise and does not write the backing store
C16_FlatMapReload ==
    [][(call'.op \in {"init", "reload"} /\ disk.kind = "flat")
       => /\ cache' = IF \A i \in DOMAIN disk.entries : ProfileShaped(disk.entries[i][2])
                      THEN disk.entries ELSE <<>>
          /\ ~raised'
          /\ wres' = <<>>
          /\ disk' = disk]_vars

\* a reload() that took a flat map whose key is not the uid of its value
C16_Witness ==
    /\ call.op = "reload"
    /\ disk.kind = "flat"
    /\ cache = disk.entries
    /\ Len(cache) = 1
    /\ cache[1][1] # cache[1][2].uid

\* C17: a register_new_streamer or update_streamer_info whose persistence write
\* fails returns without raising and the cache keeps what the call stored; a
\* get_streamer or get_or_register that follows finds it; and every later call
\* whose write succeeds leaves on disk the streamers array of the cache values
C17_FailedWriteKeepsCache ==
    [][/\ (call'.op = "register_new_streamer" /\ Failed(wres') > 0)
          => /\ ~raised'
             /\ call'.uid \in Keys(cache')
             /\ ret'[1].uid = call'.uid
             /\ get_streamer(cache', call'.uid) = ret'
             /\ \A k \in Keys(cache) \ {call'.uid} : At(cache', k) = At(cache, k)
       /\ (call'.op = "update_streamer_info" /\ Failed(wres') > 0)
          => /\ ~raised'
             /\ GivenNonEmpty(args'[1]) => At(cache', call'.uid).name = args'[1]
             /\ GivenNonEmpty(args'[2]) => At(cache', call'.uid).color = args'[2]
       /\ (/\ call.op \in {"register_new_streamer", "update_streamer_info"}
           /\ Failed(wres) > 0
           /\ call'.op = "get_or_register"
           /\ call'.uid = call.uid)
          => /\ ~raised'
             /\ ret' = get_streamer(cache, call.uid)
             /\ cache' = cache
       /\ (call'.op \in Mutating \cup {"save"} /\ wres' = <<"ok">>)
          => /\ disk'.kind = "canonical"
             /\ disk'.streamers = [i \in DOMAIN cache' |-> cache'[i][2]]]_vars

\* a registration whose write failed: the cache holds the profile, the store does not
C17_Witness ==
    /\ call.op = "register_new_streamer"
    /\ Failed(wres) = 1
    /\ call.uid \in Keys(cache)
    /\ disk.kind = "canonical"
    /\ \A i \in DOMAIN disk.streamers : disk.streamers[i].uid # call.uid
    /\ Len(cache) = 2

\* C18: __init__ writes {streamers: []} only when the backing file is absent
\* and leaves an existing file as it is; when the file is then missing or is
\* not a well-formed document the registry is constructed with an empty cache;
\* and a later mutating call whose write succeeds leaves the canonical document
\* of the cache's profiles
C18_ConstructionRepairs ==
    [][/\ call'.op = "init"
          => /\ disk.kind # "missing" => (disk' = disk /\ wres' = <<>>)
             /\ disk.kind = "missing"
                => /\ Len(wres') = 1
                   /\ wres'[1] = "ok" => disk' = CanonicalDoc(<<>>)
             /\ ~WellFormed(disk')
                => (phase' = "ready" /\ ~raised' /\ cache' = <<>>)
       /\ (call'.op \in Mutating /\ wres' = <<"ok">>)
          => disk' = CanonicalDoc([i \in DOMAIN cache' |-> cache'[i][2]])]_vars

\* the uids of the profiles of the canonical document d
StoredUids(d) == {d.streamers[i].uid : i \in DOMAIN d.streamers}

\* C19: a register_new_streamer or update_streamer_info that writes works on
\* the whole backing store: the document it writes still holds every profile
\* the store held, those another registry object on the same file persisted included
C19_WriteKeepsStoredProfiles ==
    [][(/\ call'.op \in {"register_new_streamer", "update_streamer_info"}
        /\ wres' = <<"ok">>
        /\ WellFormed(disk)
        /\ disk.kind = "canonical")
       => /\ disk'.kind = "canonical"
          /\ StoredUids(disk) \subseteq StoredUids(disk')]_vars

\* C20: in a constructed registry every cache key is the uid of the profile
\* stored under it, so get_streamer(u) returns nothing or a profile whose uid is u
C20_KeysAreUids ==
    phase = "ready" =>
        /\ \A i \in DOMAIN cache : cache[i][2].uid = cache[i][1]
        /\ \A u \in UIDs : get_streamer(cache, u) # <<>> => get_streamer(cache, u)[1].uid = u

====
